---- MODULE Spec2Model ----
(***************************************************************************)
(* CreatePeerConnectionTask (src/src/task/CreatePeerConnectionTask.ts):    *)
(* the track-to-tile binding protocol.  One action per handler of the     *)
(* task: run, removeObserver, trackAddedHandler (audio / loopback /       *)
(* remote video), the backoff timer callback of bindTile, the presence    *)
(* handler and the presence timeout of bindExternalIdToRemoteTile, and    *)
(* the track end handler removeRemoteVideoTrack.  JavaScript runs the     *)
(* handlers one at a time on a single event loop, so each handler is one  *)
(* atomic action.                                                          *)
(*                                                                         *)
(* Every accepted remote video track ("add") gets an index i, which also  *)
(* names the closures created by that call of addRemoteVideoTrack: the    *)
(* tile returned by addVideoTile, trackRemovedHandler, the backoff timer, *)
(* the presence handler and its timeout.                                  *)
(***************************************************************************)
EXTENDS Integers, Sequences, FiniteSets, TLC

\* ---------------------------------------------------------------- bounds
\* Remote video tracks accepted by addRemoteVideoTrack in one session.
MaxAdds == 2
\* Runs of removeRemoteVideoTrack counted for one add.
MaxTeardownRuns == 2

\* ------------------------------------------------------------ value sets
NULL == "null"
UNDEFINED == "undefined"

Tracks == {"t1", "t2"}
Attendees == {"a1", "a2"}
ExtIds == {"u-42"}
\* What videoStreamIndex answers for a track id: <<attendeeIdForTrack,
\* streamIdForTrack>>; a stream id is a number (0 included) or undefined.
IndexEntries == {<<"a1", "7">>, <<"a2", "0">>, <<"a2", UNDEFINED>>}

\* The stream the transport delivers audio on (event.streams[0]).
AudioStream == "audio-stream"
\* The audio track of the session.
AudioTrack == "audio-track"
\* track.kind
Kinds == {"audio", "video"}

\* <<track, whether stream.getVideoTracks() is not empty>> for the streams
\* the transport delivers.
StreamShapes == {<<"t1", TRUE>>, <<"t2", TRUE>>, <<"t2", FALSE>>}

\* videoStreamIndex was not asked.
NoIndexEntry == <<NULL, NULL>>

WidthOf(t) == IF t = "t1" THEN "1280" ELSE "640"
HeightOf(t) == IF t = "t1" THEN "720" ELSE "360"

\* What track.getSettings() / track.getCapabilities() reports for t: an
\* object whose width and height are absent until the track has dimensions.
EmptySnapshot == [object |-> TRUE, width |-> UNDEFINED, height |-> UNDEFINED]
FullSnapshot(t) == [object |-> TRUE, width |-> WidthOf(t), height |-> HeightOf(t)]

\* this.trackCapability = null (line 277): no object to read from.
NoCapability == [object |-> FALSE, width |-> UNDEFINED, height |-> UNDEFINED]

Complete(snap) ==
    /\ snap.width \notin {NULL, UNDEFINED}
    /\ snap.height \notin {NULL, UNDEFINED}

\* JavaScript truthiness of the values used here (null, undefined and the
\* number 0 are falsy).
Truthy(v) == v \notin {NULL, UNDEFINED, "0"}

trackEvents == <<"ended", "mute", "unmute", "isolationchange", "overconstrained">>

\* A tile as addVideoTile() returns it: not bound to anything.
UnboundTileState ==
    [boundAttendeeId |-> NULL, boundExternalUserId |-> NULL,
     videoStreamContentWidth |-> NULL, videoStreamContentHeight |-> NULL,
     streamId |-> NULL]


VARIABLES
    \* ---- fields of the task
    removeTrackAddedEventListener,    \* TRUE: the closure is set (non-null)
    removeTrackRemovedEventListeners, \* track id -> add whose remover is stored
    presenceHandlerSet,               \* adds whose presence handler is in the set
    removeVideoTrackEventListeners,   \* track id -> sequence of <<add, event>> removers
    trackCapability,                  \* NoCapability or the last snapshot read
    backoffTimer,                     \* 0 (null) or the add whose timer was created last
    isContentWidthHeightSet,
    \* ---- closures of each addRemoteVideoTrack call
    adds,          \* i -> [track, attendeeId, streamId, hasVideo]
    timers,        \* i -> [backoff, presence]: state of the two TimeoutSchedulers
    bound,         \* i -> [width, height] captured by the presence handler
    \* ---- collaborators
    unifiedPlan,        \* browserBehavior.requiresUnifiedPlan()
    runCalled,          \* run() was invoked for this session
    peerTrackListener,  \* trackAddedHandler is registered on context.peer
    endListeners,       \* adds whose trackRemovedHandler is registered on its target
    auxListeners,       \* <<add, event>> diagnostic listeners registered on the video track
    subscribers,        \* presence handlers subscribed at the realtime controller
    tileRegistry,       \* tile ids the video tile controller holds
    tileState,          \* i -> state of the tile created by add i
    settings,           \* track id -> snapshot the track reports now
    audioStream,        \* NULL or the stream bound at the audio mix controller
    \* ---- history
    ended,              \* i -> an end/removed event was dispatched on add i's target
    teardownRuns,       \* i -> runs of removeRemoteVideoTrack for add i
    teardownErrors,     \* adds whose removeRemoteVideoTrack threw
    bindCalls,          \* i -> calls of tile.bindVideoStream on tile i
    unsubscribeCalls,   \* i -> calls of realtimeUnsubscribeToAttendeeIdPresence(handler i)
    videosPausedRemoved \* adds whose teardown called videosPaused.remove(streamId)

taskVars ==
    <<removeTrackAddedEventListener, removeTrackRemovedEventListeners,
      presenceHandlerSet, removeVideoTrackEventListeners, trackCapability,
      backoffTimer, isContentWidthHeightSet>>
closureVars == <<adds, timers, bound>>
collabVars ==
    <<unifiedPlan, runCalled, peerTrackListener, endListeners, auxListeners,
      subscribers, tileRegistry, tileState, settings, audioStream>>
historyVars ==
    <<ended, teardownRuns, teardownErrors, bindCalls, unsubscribeCalls,
      videosPausedRemoved>>
vars == <<taskVars, closureVars, collabVars, historyVars>>

Added == DOMAIN adds

\* The state after the constructor (lines 18-47); run() has not been called.
Init ==
    /\ removeTrackAddedEventListener = FALSE
    /\ removeTrackRemovedEventListeners = <<>>
    /\ presenceHandlerSet = {}
    /\ removeVideoTrackEventListeners = <<>>
    /\ trackCapability = NoCapability
    /\ backoffTimer = 0
    /\ isContentWidthHeightSet = FALSE
    /\ adds = <<>>
    /\ timers = <<>>
    /\ bound = <<>>
    /\ unifiedPlan \in BOOLEAN
    /\ runCalled = FALSE
    /\ peerTrackListener = FALSE
    /\ endListeners = {}
    /\ auxListeners = {}
    /\ subscribers = {}
    /\ tileRegistry = {}
    /\ tileState = <<>>
    /\ settings = [t \in Tracks |-> EmptySnapshot]
    /\ audioStream = NULL
    /\ ended = <<>>
    /\ teardownRuns = <<>>
    /\ teardownErrors = {}
    /\ bindCalls = <<>>
    /\ unsubscribeCalls = <<>>
    /\ videosPausedRemoved = {}

\* ------------------------------------------------------------- helpers
\* delete obj[key]
Delete(f, key) == [k \in DOMAIN f \ {key} |-> f[k]]
\* obj[key] = value
Put(f, key, value) == [k \in DOMAIN f \cup {key} |-> IF k = key THEN value ELSE f[k]]

RECURSIVE Repeat(_, _)
Repeat(call, n) == IF n = 0 THEN <<>> ELSE <<call>> \o Repeat(call, n - 1)

\* typeof v, for the values a snapshot holds.
Typeof(v) ==
    IF v = UNDEFINED THEN "undefined" ELSE IF v = NULL THEN "object" ELSE "number"

\* isCapabilitySet (lines 319-336).  With a null trackCapability line 333
\* throws inside the async callback, which binds nothing either.
IsCapabilitySet(cap) ==
    IF cap.object
    THEN cap.width # NULL /\ Typeof(cap.height) # NULL
    ELSE FALSE

\* retryWithBackoff, line 339: const willRetry = !this.isContentWidthHeightSet
WillRetry(widthHeightSet) == ~widthHeightSet

\* The branch at line 297 never taken: every tile waits for a presence event.
BindsDirectlyNever(externalUserId) == FALSE

\* if (externalUserId) at line 297.
BindsDirectly(externalUserId) == Truthy(externalUserId)

\* The presence handler's condition, line 169.
HandlerMatches(attendeeId, presentAttendeeId, present, externalUserId) ==
    /\ attendeeId = presentAttendeeId
    /\ present
    /\ externalUserId # NULL

\* Only the plan-b test of lines 150-155, whatever the mode.
TrackIsVideoInputById(t, transceiverAnswer, activeInputTrack) ==
    activeInputTrack # NULL /\ activeInputTrack = t

\* trackIsVideoInput (lines 140-157).  The transceiver controller uses
\* transceivers exactly in unified-plan mode.
TrackIsVideoInput(t, transceiverAnswer, activeInputTrack) ==
    IF unifiedPlan
    THEN transceiverAnswer
    ELSE activeInputTrack # NULL /\ activeInputTrack = t

\* videoTileController.removeVideoTilesByAttendeeId: the tiles of the
\* registry whose state is bound to the attendee.
TilesByAttendeeId(attendeeId) ==
    {k \in tileRegistry : tileState[k].boundAttendeeId = attendeeId}

\* Line 195 left out: the attendee's tiles stay in the registry.
RegistryWithoutRemoval(attendeeId) == tileRegistry

\* The registry when addVideoTile() is called at line 202: line 195 has
\* removed the attendee's tiles from it.
RegistryAtAddVideoTile(attendeeId) == tileRegistry \ TilesByAttendeeId(attendeeId)

\* tile.bindVideoStream(attendeeId, false, stream, width, height, streamId,
\* externalUserId): the tile's state afterwards.
BoundTileState(attendeeId, width, height, streamId, externalUserId) ==
    [boundAttendeeId |-> attendeeId, boundExternalUserId |-> externalUserId,
     videoStreamContentWidth |-> width, videoStreamContentHeight |-> height,
     streamId |-> streamId]

\* Line 263 left out: the end listener stays on its target.
EndListenersKept(listeners, j) == listeners

\* The closure stored at lines 262-265, for the add j it was created by:
\* target.removeEventListener(endEvent, trackRemovedHandler).
EndListenersAfterRemover(listeners, j) == listeners \ {j}

\* The closure stored at lines 262-265, for the add j it was created by:
\* delete this.removeTrackRemovedEventListeners[track.id].
RegistryAfterRemover(registry, j) == Delete(registry, adds[j].track)

\* Lines 51-53: every stored remover is called.
RECURSIVE EndListenersAfterAllRemovers(_, _)
EndListenersAfterAllRemovers(listeners, registry) ==
    IF DOMAIN registry = {} THEN listeners
    ELSE LET t == CHOOSE k \in DOMAIN registry : TRUE
         IN EndListenersAfterAllRemovers(
                EndListenersAfterRemover(listeners, registry[t]),
                RegistryAfterRemover(registry, registry[t]))

RECURSIVE RegistryAfterAllRemovers(_)
RegistryAfterAllRemovers(registry) ==
    IF DOMAIN registry = {} THEN registry
    ELSE LET t == CHOOSE k \in DOMAIN registry : TRUE
         IN RegistryAfterAllRemovers(RegistryAfterRemover(registry, registry[t]))

\* Line 121 left out: the field keeps the closure.
TrackAddedRemoverNotNulled == TRUE

\* The closure set at lines 117-122 nulls the field at line 121: whether
\* the field is still set after the closure ran.
TrackAddedRemoverStillSet == FALSE

\* Lines 54-57: what is left in presenceHandlerSet after the loop.
PresenceHandlerSetAfterRemoveObserver == {}

\* The collaborator calls removeObserver() makes in the current state
\* (lines 50-57): peer.removeEventListener, one target.removeEventListener
\* per stored remover, one unsubscribe per handler of presenceHandlerSet.
RemoveObserverCalls ==
    (IF removeTrackAddedEventListener THEN <<"peer.removeEventListener">> ELSE <<>>)
    \o Repeat("target.removeEventListener",
              Cardinality(DOMAIN removeTrackRemovedEventListeners))
    \o Repeat("realtimeUnsubscribeToAttendeeIdPresence",
              Cardinality(presenceHandlerSet))

\* Tracks are named in the order the transport first announces them.
NamedInOrder(t) == t = "t1" \/ \E i \in Added : adds[i].track = "t1"

\* Line 171 left out: a matched handler stays subscribed.
SubscribersKeptAfterMatch(matched) == subscribers

\* What a matching presence handler leaves subscribed (line 171).
SubscribersAfterMatch(matched) == subscribers \ matched

\* Line 179 left out: the timeout leaves the handler subscribed.
SubscribersKeptAfterTimeout(i) == subscribers

\* What the presence timeout's callback leaves subscribed (line 179).
SubscribersAfterTimeout(i) == subscribers \ {i}

\* A track the transport has added and not yet ended.  The transport ends
\* a track on its old stream before it announces it again.
Live(t) == \E i \in Added : adds[i].track = t /\ ~ended[i]

\* ------------------------------------------------------------- actions

\* run() (lines 85-124), invoked once per session establishment.
Run ==
    /\ ~runCalled
    /\ runCalled' = TRUE
    /\ removeTrackAddedEventListener' = TRUE
    /\ peerTrackListener' = TRUE
    /\ UNCHANGED <<removeTrackRemovedEventListeners, presenceHandlerSet,
                   removeVideoTrackEventListeners, trackCapability, backoffTimer,
                   isContentWidthHeightSet, closureVars, unifiedPlan, endListeners,
                   auxListeners, subscribers, tileRegistry, tileState, settings,
                   audioStream, historyVars>>

\* The branch trackAddedHandler takes (lines 133-137).
Outcome(kind, isVideoInput) ==
    IF kind = "audio" THEN "bindAudioStream"
    ELSE IF kind = "video" /\ ~isVideoInput THEN "addRemoteVideoTrack"
    ELSE "ignored"

\* trackAddedHandler with an audio track (lines 133-134).
TrackAddedAudio ==
    /\ peerTrackListener
    /\ audioStream' = AudioStream
    /\ UNCHANGED <<taskVars, closureVars, unifiedPlan, runCalled, peerTrackListener,
                   endListeners, auxListeners, subscribers, tileRegistry, tileState,
                   settings, historyVars>>

\* trackAddedHandler with the locally sent video track: ignored (line 135).
TrackAddedLoopback(t, transceiverAnswer, activeInputTrack) ==
    /\ peerTrackListener
    /\ TrackIsVideoInput(t, transceiverAnswer, activeInputTrack)
    /\ UNCHANGED vars

\* trackAddedHandler with a remote video track: addRemoteVideoTrack
\* (lines 184-267) with bindTile (269-317) and retryWithBackoff (338-352).
\*   attendeeId, streamIdResult: the answers of videoStreamIndex;
\*   hasVideo: stream.getVideoTracks() is not empty (always so in plan-b,
\*   where the stream is built from the video track at line 187).
AddRemoteVideoTrack(t, attendeeId, streamIdResult, hasVideo) ==
    /\ peerTrackListener
    /\ Len(adds) < MaxAdds
    /\ ~Live(t)
    /\ NamedInOrder(t)
    /\ unifiedPlan \/ hasVideo
    /\ <<t, hasVideo>> \in StreamShapes
    /\ LET i == Len(adds) + 1
           streamId == IF streamIdResult = UNDEFINED THEN NULL ELSE streamIdResult
           removers == IF hasVideo
                       THEN [e \in 1..Len(trackEvents) |-> <<i, e>>]
                       ELSE <<>>
           existing == IF t \in DOMAIN removeVideoTrackEventListeners
                       THEN removeVideoTrackEventListeners[t]
                       ELSE <<>>
           willRetry == WillRetry(FALSE)
       IN  /\ adds' = Append(adds, [track |-> t, attendeeId |-> attendeeId,
                                    streamId |-> streamId, hasVideo |-> hasVideo])
           /\ tileRegistry' = RegistryAtAddVideoTile(attendeeId) \cup {i}
           /\ tileState' = Append(tileState, UnboundTileState)
           /\ auxListeners' = auxListeners \cup {removers[e] : e \in DOMAIN removers}
           /\ removeVideoTrackEventListeners' =
                 IF hasVideo
                 THEN Put(removeVideoTrackEventListeners, t, existing \o removers)
                 ELSE removeVideoTrackEventListeners
           /\ isContentWidthHeightSet' = FALSE
           /\ trackCapability' = NoCapability
           /\ backoffTimer' = IF willRetry THEN i ELSE backoffTimer
           /\ timers' = Append(timers,
                 [backoff |-> IF willRetry THEN "pending" ELSE "none",
                  presence |-> "none"])
           /\ bound' = Append(bound, [width |-> NULL, height |-> NULL])
           /\ removeTrackRemovedEventListeners' =
                 Put(removeTrackRemovedEventListeners, t, i)
           /\ endListeners' = endListeners \cup {i}
           /\ ended' = Append(ended, FALSE)
           /\ teardownRuns' = Append(teardownRuns, 0)
           /\ bindCalls' = Append(bindCalls, 0)
           /\ unsubscribeCalls' = Append(unsubscribeCalls, 0)
    /\ UNCHANGED <<removeTrackAddedEventListener, presenceHandlerSet, unifiedPlan,
                   runCalled, peerTrackListener, subscribers, settings, audioStream,
                   teardownErrors, videosPausedRemoved>>

\* trackAddedHandler (lines 126-138) for one 'track' event.
\*   kind: track.kind; transceiverAnswer, activeInputTrack: what
\*   trackIsVideoInput consults; e: the answers of videoStreamIndex.
TrackAddedHandler(kind, t, transceiverAnswer, activeInputTrack, e, hasVideo) ==
    LET outcome == Outcome(kind, TrackIsVideoInput(t, transceiverAnswer, activeInputTrack))
    IN  CASE outcome = "bindAudioStream" -> TrackAddedAudio
          [] outcome = "ignored" ->
                TrackAddedLoopback(t, transceiverAnswer, activeInputTrack)
          [] outcome = "addRemoteVideoTrack" ->
                AddRemoteVideoTrack(t, e[1], e[2], hasVideo)

\* The callback reads whatever the instance field held before it ran, and
\* its own track only when the field is null.
SnapshotLeftInField(i) ==
    IF trackCapability.object THEN trackCapability ELSE settings[adds[i].track]

\* Lines 280-286: the callback of add i assigns its own track's snapshot to
\* this.trackCapability and reads it back in the same turn.
SnapshotReadBy(i) == settings[adds[i].track]

\* The callback starts the timer again.
BackoffTimerRestarted == "pending"

\* The state of the one-shot backoff timer after its callback (lines
\* 279-315): the callback never calls retryWithBackoff again.
BackoffTimerAfterCallback == "fired"

\* The callback the backoff timer of add i runs (lines 279-315); the
\* TimeoutScheduler fires once.  directoryAnswer is what
\* realtimeExternalUserIdFromAttendeeId returns at line 290.
BackoffTimerFires(i, directoryAnswer) ==
    /\ i \in Added
    /\ timers[i].backoff = "pending"
    /\ LET cap == SnapshotReadBy(i)
           a == adds[i]
       IN  /\ trackCapability' = cap
           /\ IF IsCapabilitySet(cap)
              THEN /\ isContentWidthHeightSet' = TRUE
                   /\ IF BindsDirectly(directoryAnswer)
                      THEN /\ tileState' = [tileState EXCEPT ![i] =
                                  BoundTileState(a.attendeeId, cap.width, cap.height,
                                                 a.streamId, directoryAnswer)]
                           /\ bindCalls' = [bindCalls EXCEPT ![i] = @ + 1]
                           /\ timers' = [timers EXCEPT ![i].backoff = BackoffTimerAfterCallback]
                           /\ UNCHANGED <<subscribers, presenceHandlerSet, bound>>
                      ELSE \* bindExternalIdToRemoteTile (lines 159-182)
                           /\ subscribers' = subscribers \cup {i}
                           /\ presenceHandlerSet' = presenceHandlerSet \cup {i}
                           /\ bound' = [bound EXCEPT ![i] =
                                  [width |-> cap.width, height |-> cap.height]]
                           /\ timers' = [timers EXCEPT ![i].backoff = BackoffTimerAfterCallback,
                                                       ![i].presence = "pending"]
                           /\ UNCHANGED <<tileState, bindCalls>>
              ELSE /\ isContentWidthHeightSet' = FALSE
                   /\ timers' = [timers EXCEPT ![i].backoff = BackoffTimerAfterCallback]
                   /\ UNCHANGED <<tileState, bindCalls, subscribers,
                                  presenceHandlerSet, bound>>
    /\ UNCHANGED <<removeTrackAddedEventListener, removeTrackRemovedEventListeners,
                   removeVideoTrackEventListeners, backoffTimer, adds, unifiedPlan,
                   runCalled, peerTrackListener, endListeners, auxListeners,
                   tileRegistry, settings, audioStream, ended, teardownRuns,
                   teardownErrors, unsubscribeCalls, videosPausedRemoved>>

\* The realtime controller delivers one presence event to every subscribed
\* handler (lines 168-175); a handler it no longer holds is not called.
PresenceEvent(presentAttendeeId, present, externalUserId) ==
    /\ subscribers # {}
    /\ LET matched == {i \in subscribers :
                          HandlerMatches(adds[i].attendeeId, presentAttendeeId,
                                         present, externalUserId)}
       IN  /\ tileState' = [i \in DOMAIN tileState |->
                 IF i \in matched
                 THEN BoundTileState(adds[i].attendeeId, bound[i].width,
                                     bound[i].height, adds[i].streamId, externalUserId)
                 ELSE tileState[i]]
           /\ bindCalls' = [i \in DOMAIN bindCalls |->
                 IF i \in matched THEN bindCalls[i] + 1 ELSE bindCalls[i]]
           /\ unsubscribeCalls' = [i \in DOMAIN unsubscribeCalls |->
                 IF i \in matched THEN unsubscribeCalls[i] + 1 ELSE unsubscribeCalls[i]]
           /\ subscribers' = SubscribersAfterMatch(matched)
           /\ presenceHandlerSet' = presenceHandlerSet \ matched
           /\ timers' = [i \in DOMAIN timers |->
                 IF i \in matched THEN [timers[i] EXCEPT !.presence = "stopped"]
                 ELSE timers[i]]
    /\ UNCHANGED <<removeTrackAddedEventListener, removeTrackRemovedEventListeners,
                   removeVideoTrackEventListeners, trackCapability, backoffTimer,
                   isContentWidthHeightSet, adds, bound, unifiedPlan, runCalled,
                   peerTrackListener, endListeners, auxListeners, tileRegistry,
                   settings, audioStream, ended, teardownRuns, teardownErrors,
                   videosPausedRemoved>>

\* The presence timeout of add i fires (lines 178-181).
PresenceTimeout(i) ==
    /\ i \in Added
    /\ timers[i].presence = "pending"
    /\ timers' = [timers EXCEPT ![i].presence = "fired"]
    /\ unsubscribeCalls' = [unsubscribeCalls EXCEPT ![i] = @ + 1]
    /\ subscribers' = SubscribersAfterTimeout(i)
    /\ presenceHandlerSet' = presenceHandlerSet \ {i}
    /\ UNCHANGED <<removeTrackAddedEventListener, removeTrackRemovedEventListeners,
                   removeVideoTrackEventListeners, trackCapability, backoffTimer,
                   isContentWidthHeightSet, adds, bound, unifiedPlan, runCalled,
                   peerTrackListener, endListeners, auxListeners, tileRegistry,
                   tileState, settings, audioStream, ended, teardownRuns,
                   teardownErrors, bindCalls, videosPausedRemoved>>

\* removeObserver() (lines 49-58).
RemoveObserver ==
    /\ removeTrackAddedEventListener' =
          IF removeTrackAddedEventListener THEN TrackAddedRemoverStillSet ELSE FALSE
    /\ peerTrackListener' =
          IF removeTrackAddedEventListener THEN FALSE ELSE peerTrackListener
    /\ endListeners' =
          EndListenersAfterAllRemovers(endListeners, removeTrackRemovedEventListeners)
    /\ removeTrackRemovedEventListeners' =
          RegistryAfterAllRemovers(removeTrackRemovedEventListeners)
    /\ subscribers' = subscribers \ presenceHandlerSet
    /\ unsubscribeCalls' = [i \in DOMAIN unsubscribeCalls |->
          IF i \in presenceHandlerSet THEN unsubscribeCalls[i] + 1
          ELSE unsubscribeCalls[i]]
    /\ presenceHandlerSet' = PresenceHandlerSetAfterRemoveObserver
    /\ UNCHANGED <<removeVideoTrackEventListeners, trackCapability, backoffTimer,
                   isContentWidthHeightSet, closureVars, unifiedPlan, runCalled,
                   auxListeners, tileRegistry, tileState, settings, audioStream, ended,
                   teardownRuns, teardownErrors, bindCalls, videosPausedRemoved>>

\* Every stream id that is not null counts as known.
StreamIdKnownIfNotNull(streamId) == streamId \notin {NULL, UNDEFINED}

\* if (tileState.streamId) at line 366.
StreamIdKnown(streamId) == Truthy(streamId)

\* removeRemoteVideoTrack(track, tile.state()) (lines 354-372), run by
\* trackRemovedHandler of add i.  Calling a missing registry entry (line 355)
\* or iterating a missing listener list (line 357) throws a TypeError that
\* ends the handler there.
RemoveRemoteVideoTrack(i) ==
    LET t == adds[i].track
        hasRemover == t \in DOMAIN removeTrackRemovedEventListeners
        hasList == t \in DOMAIN removeVideoTrackEventListeners
        list == removeVideoTrackEventListeners[t]
    IN  /\ teardownRuns' = [teardownRuns EXCEPT ![i] = @ + 1]
        /\ IF ~hasRemover
           THEN /\ teardownErrors' = teardownErrors \cup {i}
                /\ UNCHANGED <<endListeners, removeTrackRemovedEventListeners,
                               auxListeners, removeVideoTrackEventListeners,
                               tileRegistry, videosPausedRemoved>>
           ELSE /\ endListeners' = EndListenersAfterRemover(
                                       endListeners, removeTrackRemovedEventListeners[t])
                /\ removeTrackRemovedEventListeners' = RegistryAfterRemover(
                       removeTrackRemovedEventListeners,
                       removeTrackRemovedEventListeners[t])
                /\ IF ~hasList
                   THEN /\ teardownErrors' = teardownErrors \cup {i}
                        /\ UNCHANGED <<auxListeners, removeVideoTrackEventListeners,
                                       tileRegistry, videosPausedRemoved>>
                   ELSE /\ auxListeners' = auxListeners \ {list[k] : k \in DOMAIN list}
                        /\ removeVideoTrackEventListeners' =
                              Delete(removeVideoTrackEventListeners, t)
                        /\ videosPausedRemoved' =
                              IF StreamIdKnown(tileState[i].streamId)
                              THEN videosPausedRemoved \cup {i}
                              ELSE videosPausedRemoved
                        /\ tileRegistry' = tileRegistry \ {i}
                        /\ UNCHANGED teardownErrors

\* The transport dispatches the end/removed event ('removetrack' on the
\* stream, 'ended' on the track in plan-b) on the target of add i; the
\* handler runs if it is still registered there.
EndSignal(i) ==
    /\ i \in Added
    /\ teardownRuns[i] < MaxTeardownRuns
    /\ ended' = [ended EXCEPT ![i] = TRUE]
    /\ IF i \in endListeners
       THEN RemoveRemoteVideoTrack(i)
       ELSE UNCHANGED <<teardownRuns, teardownErrors, endListeners,
                        removeTrackRemovedEventListeners, auxListeners,
                        removeVideoTrackEventListeners, tileRegistry,
                        videosPausedRemoved>>
    /\ UNCHANGED <<removeTrackAddedEventListener, presenceHandlerSet, trackCapability,
                   backoffTimer, isContentWidthHeightSet, closureVars, unifiedPlan,
                   runCalled, peerTrackListener, subscribers, tileState, settings,
                   audioStream, bindCalls, unsubscribeCalls>>

\* The snapshot of t can still be read: by a pending callback of t, or by
\* the callback of an add that can still come.
WillBeRead(t) ==
    \/ \E i \in Added : adds[i].track = t /\ timers[i].backoff = "pending"
    \/ Len(adds) < MaxAdds /\ (~runCalled \/ peerTrackListener)

\* A track starts to report its dimensions, and reports them from then on.
SettingsChange(t) ==
    /\ WillBeRead(t)
    /\ settings[t] = EmptySnapshot
    /\ settings' = [settings EXCEPT ![t] = FullSnapshot(t)]
    /\ UNCHANGED <<taskVars, closureVars, unifiedPlan, runCalled, peerTrackListener,
                   endListeners, auxListeners, subscribers, tileRegistry, tileState,
                   audioStream, historyVars>>

Next ==
    \/ Run
    \/ RemoveObserver
    \* an audio event: the handler consults no collaborator
    \/ TrackAddedHandler("audio", AudioTrack, FALSE, NULL, NoIndexEntry, FALSE)
    \* a video event that trackIsVideoInput accepts: videoStreamIndex is not asked
    \/ \E t \in Tracks, answer \in BOOLEAN, active \in Tracks \cup {NULL} :
          /\ TrackIsVideoInput(t, answer, active)
          /\ TrackAddedHandler("video", t, answer, active, NoIndexEntry, FALSE)
    \* any other video event
    \/ \E t \in Tracks, answer \in BOOLEAN, active \in Tracks \cup {NULL},
          e \in IndexEntries, hv \in BOOLEAN :
          /\ ~TrackIsVideoInput(t, answer, active)
          /\ TrackAddedHandler("video", t, answer, active, e, hv)
    \/ \E i \in Added, ext \in ExtIds \cup {NULL} : BackoffTimerFires(i, ext)
    \/ \E a \in Attendees, present \in BOOLEAN, ext \in ExtIds \cup {NULL, UNDEFINED} :
          PresenceEvent(a, present, ext)
    \/ \E i \in Added : PresenceTimeout(i)
    \/ \E i \in Added : EndSignal(i)
    \/ \E t \in Tracks : SettingsChange(t)

Spec == Init /\ [][Next]_vars

\* ------------------------------------------------------------- claims

\* removeObserver() was called after run().
ObserverRemoved == runCalled /\ ~removeTrackAddedEventListener

\* C1: removeRemoteVideoTrack runs at most once for every accepted remote
\* video track, whatever end/removed events and removeObserver calls follow.
C1_TeardownAtMostOnce == \A i \in Added : teardownRuns[i] <= 1

\* The track of add i has ended and was torn down once; its target can still
\* dispatch further end events.
C1_Witness ==
    \E i \in Added : ended[i] /\ teardownRuns[i] = 1 /\ i \notin endListeners

\* C2: an add for an attendee that has a tile bound to it removes that tile
\* from the registry before the new tile is created, so after the call the
\* prior tile is not in the registry and the new one is.
C2_PriorTileRemovedFirst ==
    [][\A t \in Tracks, e \in IndexEntries, hv \in BOOLEAN :
          AddRemoteVideoTrack(t, e[1], e[2], hv) =>
              /\ TilesByAttendeeId(e[1]) \cap tileRegistry' = {}
              /\ Len(adds') \in tileRegistry'
              /\ tileState'[Len(adds')] = UnboundTileState]_vars

\* A tile bound to an attendee was removed by a later add for the same
\* attendee, not by its own track's end.
C2_Witness ==
    \E i, j \in Added :
        /\ i < j
        /\ tileState[i].boundAttendeeId = adds[j].attendeeId
        /\ teardownRuns[i] = 0
        /\ i \notin tileRegistry
        /\ j \in tileRegistry

\* C3: a track whose snapshot has width and height when it is added starts
\* no backoff timer.
C3_NoTimerWhenComplete ==
    [][\A t \in Tracks, e \in IndexEntries, hv \in BOOLEAN :
          (AddRemoteVideoTrack(t, e[1], e[2], hv) /\ Complete(settings[t])) =>
              timers'[Len(adds')].backoff = "none"]_vars

\* C4: when the directory knows the external id as capability resolution
\* succeeds, the tile is bound with that id and nothing is subscribed: the
\* handler set and the subscribers are unchanged and no presence timeout starts.
C4_DirectBindWithoutSubscription ==
    [][\A i \in Added, ext \in ExtIds :
          (BackoffTimerFires(i, ext) /\ IsCapabilitySet(settings[adds[i].track])) =>
              /\ tileState'[i] = BoundTileState(adds[i].attendeeId,
                                     settings[adds[i].track].width,
                                     settings[adds[i].track].height,
                                     adds[i].streamId, ext)
              /\ bindCalls'[i] = bindCalls[i] + 1
              /\ presenceHandlerSet' = presenceHandlerSet
              /\ subscribers' = subscribers
              /\ timers'[i].presence = "none"]_vars

\* A tile was bound from the backoff callback, with no presence timeout.
C4_Witness ==
    \E i \in Added :
        /\ timers[i].backoff = "fired"
        /\ timers[i].presence = "none"
        /\ bindCalls[i] = 1
        /\ tileState[i].boundExternalUserId \in ExtIds

\* The add i was bound by its presence handler.
BoundByPresence(i) == timers[i].presence # "none" /\ bindCalls[i] >= 1

\* C5: a presence event (attendee, present, external id) that reaches a
\* waiting handler before its timeout binds the tile with that id and the
\* width, height and stream id resolved before, unsubscribes the handler
\* once and stops the timeout; afterwards the tile is never bound again and
\* the handler never unsubscribed again.
C5_MatchBindsOnce ==
    /\ [][\A a \in Attendees, ext \in ExtIds :
             PresenceEvent(a, TRUE, ext) =>
                 \A i \in subscribers :
                     (adds[i].attendeeId = a /\ timers[i].presence = "pending") =>
                         /\ tileState'[i] = BoundTileState(a, bound[i].width,
                                                bound[i].height, adds[i].streamId, ext)
                         /\ unsubscribeCalls'[i] = 1
                         /\ i \notin subscribers'
                         /\ i \notin presenceHandlerSet'
                         /\ timers'[i].presence = "stopped"]_vars
    /\ [](\A i \in Added :
             BoundByPresence(i) =>
                 /\ bindCalls[i] = 1
                 /\ unsubscribeCalls[i] = 1
                 /\ i \notin subscribers
                 /\ i \notin presenceHandlerSet
                 /\ timers[i].presence = "stopped")

\* A presence event bound a tile with the external id it carried.
C5_Witness ==
    \E i \in Added :
        /\ timers[i].presence = "stopped"
        /\ tileState[i].boundExternalUserId \in ExtIds
        /\ tileState[i].boundAttendeeId = adds[i].attendeeId

\* C6: once the presence timeout has fired, the handler is unsubscribed and
\* out of presenceHandlerSet, and the tile was never bound and stays unbound.
C6_TimeoutLeavesTileUnbound ==
    \A i \in Added :
        timers[i].presence = "fired" =>
            /\ i \notin subscribers
            /\ i \notin presenceHandlerSet
            /\ bindCalls[i] = 0
            /\ tileState[i] = UnboundTileState

\* A presence timeout fired and unsubscribed its handler.
C6_Witness ==
    \E i \in Added : timers[i].presence = "fired" /\ unsubscribeCalls[i] = 1

\* C7: no presence handler is unsubscribed more than once, whichever of
\* match, timeout and removeObserver come.
C7_UnsubscribedAtMostOnce == \A i \in Added : unsubscribeCalls[i] <= 1

\* C8: once removeRemoteVideoTrack has run for a track, no presence handler
\* of its tile is subscribed.
C8_NoSubscriptionAfterTeardown ==
    \A i \in Added : teardownRuns[i] >= 1 => i \notin subscribers

\* C9: once a track has been torn down or the observer removed, the track's
\* backoff timer is not pending any more.
C9_TimerStoppedByTeardown ==
    \A i \in Added :
        (teardownRuns[i] >= 1 \/ ObserverRemoved) => timers[i].backoff # "pending"

\* removeObserver() called in the current state makes no collaborator call
\* and changes no registry.
RemoveObserverIsNoOp ==
    /\ RemoveObserverCalls = <<>>
    /\ ~removeTrackAddedEventListener
    /\ EndListenersAfterAllRemovers(endListeners, removeTrackRemovedEventListeners)
          = endListeners
    /\ DOMAIN RegistryAfterAllRemovers(removeTrackRemovedEventListeners)
          = DOMAIN removeTrackRemovedEventListeners
    /\ subscribers \ presenceHandlerSet = subscribers
    /\ PresenceHandlerSetAfterRemoveObserver = presenceHandlerSet

\* C10: removeObserver() before run() does nothing, and right after any
\* removeObserver() call another call makes no collaborator call and leaves
\* every registry as it is.
C10_RemoveObserverIdempotent ==
    /\ [](~runCalled => RemoveObserverIsNoOp)
    /\ [][RemoveObserver => RemoveObserverIsNoOp']_vars

\* removeObserver() has removed the track listener, an end listener and
\* unsubscribed a presence handler; calling it again is possible.
C10_Witness ==
    /\ ObserverRemoved
    /\ \E i \in Added : ~ended[i] /\ i \notin endListeners
    /\ \E i \in Added : unsubscribeCalls[i] = 1 /\ timers[i].presence = "pending"
    /\ RemoveObserverIsNoOp

\* The diagnostic listeners still registered on tracks that have not ended.
LiveAuxListeners == {l \in auxListeners : ~ended[l[1]]}

\* C11: right after the first removeObserver() call the peer's track
\* listener is removed, no diagnostic listener is left on a live track,
\* removeVideoTrackEventListeners is empty, and no presence handler is
\* subscribed or left in presenceHandlerSet.
C11_FirstCallRemovesAll ==
    [][(RemoveObserver /\ removeTrackAddedEventListener) =>
          /\ ~peerTrackListener'
          /\ ~removeTrackAddedEventListener'
          /\ DOMAIN removeTrackRemovedEventListeners' = {}
          /\ LiveAuxListeners' = {}
          /\ DOMAIN removeVideoTrackEventListeners' = {}
          /\ subscribers' = {}
          /\ presenceHandlerSet' = {}]_vars

\* The track is the locally sent video input: the transceiver controller says
\* so in unified-plan mode, the active input's first video track has its id
\* in plan-b mode.
LocallySent(t, transceiverAnswer, activeInputTrack) ==
    IF unifiedPlan THEN transceiverAnswer ELSE activeInputTrack = t

\* C12: trackAddedHandler has exactly one outcome per track event: an audio
\* track is bound at the audio mix controller and nothing else changes; the
\* locally sent video track changes nothing; every other video track makes
\* one add with one new tile and leaves the audio binding alone.  A video
\* event that leaves adds as it is changes nothing at all (the handler's
\* only other branch), so the video part is stated for the steps that
\* change adds.
C12_OneOutcomePerTrack ==
    [][/\ TrackAddedHandler("audio", AudioTrack, FALSE, NULL, NoIndexEntry, FALSE) =>
             /\ audioStream' = AudioStream
             /\ UNCHANGED <<taskVars, closureVars, tileRegistry, tileState,
                            endListeners, auxListeners, subscribers, historyVars>>
       /\ adds' # adds =>
             \A t \in Tracks, answer \in BOOLEAN, active \in Tracks \cup {NULL},
                e \in IndexEntries \cup {NoIndexEntry}, hv \in BOOLEAN :
                TrackAddedHandler("video", t, answer, active, e, hv) =>
                    IF LocallySent(t, answer, active)
                    THEN UNCHANGED vars
                    ELSE /\ Len(adds') = Len(adds) + 1
                         /\ adds'[Len(adds')].track = t
                         /\ tileRegistry' \ tileRegistry = {Len(adds')}
                         /\ Len(tileState') = Len(tileState) + 1
                         /\ audioStream' = audioStream]_vars

\* The audio track was bound and two remote video tracks got a tile each.
C12_Witness ==
    /\ audioStream = AudioStream
    /\ Len(adds) = 2
    /\ Len(tileState) = 2

\* C13: an attempt that finds the snapshot incomplete binds nothing,
\* subscribes nothing and schedules another attempt (the timer is pending
\* again), so that a snapshot completed later is still picked up.
C13_IncompleteAttemptRetries ==
    [][\A i \in Added, ext \in ExtIds \cup {NULL} :
          (BackoffTimerFires(i, ext) /\ ~Complete(settings[adds[i].track])) =>
              /\ timers'[i].backoff = "pending"
              /\ bindCalls'[i] = bindCalls[i]
              /\ i \notin subscribers']_vars

\* C14: no tile is bound and no presence subscription is created with a
\* missing width or a missing height.
C14_BoundOnlyWithDimensions ==
    \A i \in Added :
        /\ bindCalls[i] >= 1 =>
              Complete([width |-> tileState[i].videoStreamContentWidth,
                        height |-> tileState[i].videoStreamContentHeight])
        /\ timers[i].presence # "none" => Complete(bound[i])

\* C15: tile.bindVideoStream is called at most once on every tile.
C15_BoundAtMostOnce == \A i \in Added : bindCalls[i] <= 1

\* One tile was bound by the backoff callback and one by its presence
\* handler, a track has ended and the observer was removed afterwards.
C15_Witness ==
    /\ ObserverRemoved
    /\ \E i, j \in Added :
          /\ bindCalls[i] = 1 /\ timers[i].presence = "none"
          /\ bindCalls[j] = 1 /\ timers[j].presence = "stopped"
          /\ teardownRuns[j] = 1

\* C16: a presence event with another attendee id, with present = false or
\* with a null or undefined external id leaves every waiting handler as it
\* is: the tile is not bound, the handler stays subscribed and its timeout
\* keeps running.
C16_OnlyFullMatchBinds ==
    [][\A a \in Attendees, present \in BOOLEAN, ext \in ExtIds \cup {NULL, UNDEFINED} :
          PresenceEvent(a, present, ext) =>
              \A i \in subscribers :
                  (adds[i].attendeeId # a \/ ~present \/ ext \in {NULL, UNDEFINED}) =>
                      /\ tileState'[i] = tileState[i]
                      /\ bindCalls'[i] = bindCalls[i]
                      /\ i \in subscribers'
                      /\ timers'[i].presence = timers[i].presence]_vars

\* C17: when the end handler of a track with diagnostic listeners runs, no
\* entry for the track is left in removeTrackRemovedEventListeners or
\* removeVideoTrackEventListeners and none of its listeners stays registered,
\* videosPaused.remove is called exactly when the tile state's stream id is
\* not null, the tile leaves the registry, and the entries of the other
\* tracks are as before.
C17_TeardownReleasesTrack ==
    [][\A i \in Added :
          (EndSignal(i) /\ i \in endListeners /\ adds[i].hasVideo) =>
              /\ adds[i].track \notin DOMAIN removeTrackRemovedEventListeners'
              /\ adds[i].track \notin DOMAIN removeVideoTrackEventListeners'
              /\ i \notin endListeners'
              /\ {l \in auxListeners' : l[1] = i} = {}
              /\ (i \in videosPausedRemoved') <=>
                     StreamIdKnownIfNotNull(tileState[i].streamId)
              /\ i \notin tileRegistry'
              /\ \A t \in Tracks \ {adds[i].track} :
                    /\ (t \in DOMAIN removeTrackRemovedEventListeners') <=>
                           (t \in DOMAIN removeTrackRemovedEventListeners)
                    /\ (t \in DOMAIN removeVideoTrackEventListeners') <=>
                           (t \in DOMAIN removeVideoTrackEventListeners)]_vars

\* C18: a track whose stream has no video sub-tracks registers no diagnostic
\* listener, and once its end handler has run the handler has thrown nothing
\* and the tile is out of the registry.
C18_VideoLessTrackTornDown ==
    \A i \in Added :
        ~adds[i].hasVideo =>
            /\ {l \in auxListeners : l[1] = i} = {}
            /\ teardownRuns[i] >= 1 => (i \notin teardownErrors /\ i \notin tileRegistry)

\* C19: the registry never holds two tiles bound to the same attendee id.
C19_OneBoundTilePerAttendee ==
    \A i, j \in tileRegistry :
        (i # j /\ tileState[i].boundAttendeeId # NULL) =>
            tileState[i].boundAttendeeId # tileState[j].boundAttendeeId

\* C20: whatever other adds are pending, the callback of add i reads its own
\* track's snapshot and binds its tile, or hands it to the presence binder,
\* with that snapshot's width and height and the add's own attendee id and
\* stream id; every tile bound and every waiting handler holds its own
\* add's values.
C20_OwnValuesPerTrack ==
    /\ [][\A i \in Added, ext \in ExtIds \cup {NULL} :
             BackoffTimerFires(i, ext) =>
                 /\ trackCapability' = settings[adds[i].track]
                 /\ timers'[i].backoff = "fired"
                 /\ \A j \in Added \ {i} :
                       /\ timers'[j] = timers[j]
                       /\ tileState'[j] = tileState[j]
                       /\ bound'[j] = bound[j]
                 /\ bindCalls'[i] > bindCalls[i] =>
                       tileState'[i] = BoundTileState(adds[i].attendeeId,
                                           settings[adds[i].track].width,
                                           settings[adds[i].track].height,
                                           adds[i].streamId, ext)
                 /\ i \in subscribers' =>
                       bound'[i] = [width |-> settings[adds[i].track].width,
                                    height |-> settings[adds[i].track].height]]_vars
    /\ [](\A i \in Added :
             /\ bindCalls[i] >= 1 =>
                   /\ tileState[i].boundAttendeeId = adds[i].attendeeId
                   /\ tileState[i].streamId = adds[i].streamId
                   /\ tileState[i].videoStreamContentWidth
                         \in {WidthOf(adds[i].track), UNDEFINED}
                   /\ tileState[i].videoStreamContentHeight
                         \in {HeightOf(adds[i].track), UNDEFINED}
             /\ timers[i].presence # "none" =>
                   /\ bound[i].width \in {WidthOf(adds[i].track), UNDEFINED}
                   /\ bound[i].height \in {HeightOf(adds[i].track), UNDEFINED})

\* Two tracks were added before either timer fired, the second fired first
\* and both tiles are bound, each with its own track's dimensions, its own
\* attendee and its own stream id.
C20_Witness ==
    /\ Len(adds) = 2
    /\ adds[1].track # adds[2].track
    /\ adds[1].attendeeId # adds[2].attendeeId
    /\ backoffTimer = 2
    /\ trackCapability = FullSnapshot(adds[1].track)
    /\ \A i \in Added :
          /\ bindCalls[i] = 1
          /\ tileState[i].boundAttendeeId = adds[i].attendeeId
          /\ tileState[i].streamId = adds[i].streamId
          /\ tileState[i].videoStreamContentWidth = WidthOf(adds[i].track)
          /\ tileState[i].videoStreamContentHeight = HeightOf(adds[i].track)

====
